---- MODULE Spec2Model ----
(***************************************************************************)
(* A chess game session with Fischer time control (src/src/chess.rs).      *)
(*                                                                         *)
(* The session (ChessGame) owns an initial board, the move history, the    *)
(* start time and the two clock settings.  play_move and undo_move take    *)
(* the session by value and hand it back only inside Ok; every time query  *)
(* replays the history through the rule engine (the pleco crate) and, for  *)
(* the in-flight queries, reads the wall clock.                            *)
(*                                                                         *)
(* Fixed-width arithmetic: every duration is a u32.  TLC's integers stop   *)
(* at 2^31 - 1, so the word is scaled to WordBits bits; the clock values   *)
(* are placed relative to the modulus, so that truncation and wrap-around  *)
(* happen as they do at 32 bits.  An overflowing + or - panics in a build  *)
(* with overflow checks and wraps in one without; the build is chosen      *)
(* once, in Init.                                                          *)
(*                                                                         *)
(* Rule engine: pleco is an external crate.  It is modelled as chess       *)
(* restricted to a small universe of UCI moves on the squares those moves  *)
(* touch.  Board::undo_move at chess.rs:194 acts on a scratch board that   *)
(* is discarded; it is modelled as returning.                              *)
(*                                                                         *)
(* Persistence: SerdeSpec builds and plays sessions as Spec does, then     *)
(* serializes them, damages the persisted object (one field removed, or    *)
(* the position notation made malformed) and deserializes it through       *)
(* visit_map or visit_seq.                                                 *)
(***************************************************************************)
EXTENDS Integers, Sequences, FiniteSets, TLC

VARIABLES
    game,             \* the caller's binding: <<session>>, or << >> once moved out
    now,              \* the wall clock, milliseconds since the epoch
    overflow_checks,  \* TRUE: arithmetic overflow panics; FALSE: it wraps
    built_at,         \* the wall clock when the session was built, untruncated
    last,             \* the last call on the session: [op, result, follows]
    pre,              \* the caller's binding before the last call
    wire,             \* the persisted session: <<[format, entries, damage]>>, or << >>
    loaded            \* what deserializing wire gave: [result, field, game]

vars == <<game, now, overflow_checks, built_at, last, pre, wire, loaded>>

----------------------------------------------------------------------------
(* Bounds of the model *)

\* Longest move history explored.
MaxMoves == 3

\* The clock is explored up to MaxClockTicks ticks after an initial epoch.
MaxClockTicks == 5

\* Width of the scaled u32 word.
WordBits == 18

----------------------------------------------------------------------------
(* u32 arithmetic *)

U32Modulus == 2 ^ WordBits

\* The outcome of a query that panicked.
Panic == 0 - 1

\* `as u32`: truncation to the word.
AsU32(n) == n % U32Modulus

\* a + b on u32.
AddU32(a, b) ==
    IF a = Panic \/ b = Panic THEN Panic
    ELSE IF a + b < U32Modulus THEN a + b
    ELSE IF overflow_checks THEN Panic
    ELSE (a + b) % U32Modulus

\* a - b on u32.
SubU32(a, b) ==
    IF a = Panic \/ b = Panic THEN Panic
    ELSE IF a >= b THEN a - b
    ELSE IF overflow_checks THEN Panic
    ELSE (a - b + U32Modulus) % U32Modulus

----------------------------------------------------------------------------
(* The rule engine (pleco), restricted to a universe of moves *)

Squares == {"e2", "e4", "g1", "h3", "a7", "a6", "b8", "c6", "d8", "h4",
            "e7", "f3", "g4"}

Empty == "."

\* Pieces in FEN letters: upper case White, lower case Black.
WhitePieces == {"P", "N"}
BlackPieces == {"p", "n", "q"}

Opponent(side) == IF side = "White" THEN "Black" ELSE "White"

PiecesOf(side) == IF side = "White" THEN WhitePieces ELSE BlackPieces

Place(placed) == [s \in Squares |-> IF s \in DOMAIN placed THEN placed[s] ELSE Empty]

\* Board::start_pos(), seen on the tracked squares.
StartPos ==
    [turn |-> "White",
     pieces |-> Place([e2 |-> "P", g1 |-> "N", a7 |-> "p", b8 |-> "n",
                       d8 |-> "q", e7 |-> "p"])]

\* A custom initial board (with_initial_board): the position after
\* 1. f3 e5 2. g4, Black to move, where d8h4 mates.
MateInOnePos ==
    [turn |-> "Black",
     pieces |-> Place([e2 |-> "P", g1 |-> "N", a7 |-> "p", b8 |-> "n",
                       d8 |-> "q", f3 |-> "P", g4 |-> "P"])]

InitialBoards == {StartPos, MateInOnePos}

\* The moves of the universe: the piece, its squares, and what must be empty.
MoveTable ==
    [e2e4 |-> [piece |-> "P", from |-> "e2", to |-> "e4", clear |-> {"e4"}],
     g1h3 |-> [piece |-> "N", from |-> "g1", to |-> "h3", clear |-> {"h3"}],
     h3g1 |-> [piece |-> "N", from |-> "h3", to |-> "g1", clear |-> {"g1"}],
     a7a6 |-> [piece |-> "p", from |-> "a7", to |-> "a6", clear |-> {"a6"}],
     b8c6 |-> [piece |-> "n", from |-> "b8", to |-> "c6", clear |-> {"c6"}],
     c6b8 |-> [piece |-> "n", from |-> "c6", to |-> "b8", clear |-> {"b8"}],
     d8h4 |-> [piece |-> "q", from |-> "d8", to |-> "h4", clear |-> {"e7", "h4"}]]

\* The UCI strings a caller submits; e2e5 is no move of any position.
UciMoves == DOMAIN MoveTable \cup {"e2e5"}

\* The white king on e1 is attacked along h4-e1 once the f-pawn has left f2.
WhiteInCheck(board) ==
    board.pieces["h4"] = "q" /\ board.pieces["f3"] = "P"

\* Board::checkmate(): in check, with neither Ke2 nor Nf2 available.
Checkmate(board) ==
    /\ board.turn = "White"
    /\ WhiteInCheck(board)
    /\ board.pieces["g4"] = "P"
    /\ board.pieces["e2"] = "P"
    /\ board.pieces["g1"] = "N"

\* Whether apply_uci_move finds the move among the legal moves.
Legal(board, uci) ==
    /\ uci \in DOMAIN MoveTable
    /\ LET m == MoveTable[uci] IN
        /\ m.piece \in PiecesOf(board.turn)
        /\ board.pieces[m.from] = m.piece
        /\ \A s \in m.clear : board.pieces[s] = Empty
        /\ ~(board.turn = "White" /\ WhiteInCheck(board))

\* Board::apply_uci_move: the board after the move; unchanged when illegal.
apply_uci_move(board, uci) ==
    IF Legal(board, uci)
    THEN LET m == MoveTable[uci] IN
         [turn |-> Opponent(board.turn),
          pieces |-> [board.pieces EXCEPT ![m.from] = Empty, ![m.to] = m.piece]]
    ELSE board

----------------------------------------------------------------------------
(* Inputs *)

\* time_taken values a caller supplies (milliseconds).
TimeValues == {500, 1000}

\* with_increment values: 10 as in the tests, and one above the shortest move.
Increments == {10, 600}

\* with_time_limit values: 3 minutes as in the tests, and a limit that the
\* used times of short histories reach and pass.
TimeLimits == {180000, 990}

\* The clock moves in steps of 500 ms; it may also step backward.
ClockSteps == {500, 1000, 0 - 500}

ClockUnit == 500

\* Epochs at which the first session is built: one early in a u32 period,
\* one 500 ms before the truncated clock wraps.
InitialEpochs == {3 * U32Modulus + 1000, 4 * U32Modulus - 500}

\* Move::new
Move(uci_move, time_taken) == [uci_move |-> uci_move, time_taken |-> time_taken]

----------------------------------------------------------------------------
(* ChessGame: position queries *)

RECURSIVE replay(_, _, _)
\* The replay loop: apply moves[1..upto] in order, ignoring the legality flag.
replay(board, moves, upto) ==
    IF upto = 0 THEN board
    ELSE apply_uci_move(replay(board, moves, upto - 1), moves[upto].uci_move)

compute_current_board(g) == replay(g.initial_board, g.moves, Len(g.moves))

\* The loop applies the moves whose index (from 0) is below target_turn.
compute_board_at_turn(g, target_turn) ==
    replay(g.initial_board, g.moves,
           IF target_turn < Len(g.moves) THEN target_turn ELSE Len(g.moves))

\* is_move_legal trying the move on the initial board, not on the current one.
is_move_legal_on_initial_board(g, mov) == Legal(g.initial_board, mov.uci_move)

is_move_legal(g, mov) == Legal(compute_current_board(g), mov.uci_move)

is_checkmate(g) == Checkmate(compute_current_board(g))

----------------------------------------------------------------------------
(* ChessGame: time accounting *)

RECURSIVE white_pure_loop(_, _)
white_pure_loop(g, n) ==
    IF n = 0 THEN 0
    ELSE LET elapsed_time == white_pure_loop(g, n - 1) IN
         IF compute_board_at_turn(g, n).turn = "Black"
         THEN AddU32(elapsed_time, g.moves[n].time_taken)
         ELSE elapsed_time

compute_white_moves_pure_time(g) == white_pure_loop(g, Len(g.moves))

RECURSIVE black_pure_loop(_, _)
\* The source tests for Player::Black here too (chess.rs:221).
black_pure_loop(g, n) ==
    IF n = 0 THEN 0
    ELSE LET elapsed_time == black_pure_loop(g, n - 1) IN
         IF compute_board_at_turn(g, n).turn = "Black"
         THEN AddU32(elapsed_time, g.moves[n].time_taken)
         ELSE elapsed_time

compute_black_moves_pure_time(g) == black_pure_loop(g, Len(g.moves))

\* charge without the else branch: a total below increment is kept.
charge_without_floor(elapsed_time, time_taken, increment) ==
    LET added == AddU32(elapsed_time, time_taken) IN
    IF added = Panic THEN Panic
    ELSE IF added >= increment THEN SubU32(added, increment)
    ELSE added

\* One attributed move of the with-increment loops: add, then discount or floor.
charge(elapsed_time, time_taken, increment) ==
    LET added == AddU32(elapsed_time, time_taken) IN
    IF added = Panic THEN Panic
    ELSE IF added >= increment THEN SubU32(added, increment)
    ELSE 0

RECURSIVE white_increment_loop(_, _)
white_increment_loop(g, n) ==
    IF n = 0 THEN 0
    ELSE LET elapsed_time == white_increment_loop(g, n - 1) IN
         IF compute_board_at_turn(g, n).turn = "Black"
         THEN charge(elapsed_time, g.moves[n].time_taken, g.increment)
         ELSE elapsed_time

compute_white_moves_time_with_increment(g) == white_increment_loop(g, Len(g.moves))

RECURSIVE black_increment_loop(_, _)
black_increment_loop(g, n) ==
    IF n = 0 THEN 0
    ELSE LET elapsed_time == black_increment_loop(g, n - 1) IN
         IF compute_board_at_turn(g, n).turn = "White"
         THEN charge(elapsed_time, g.moves[n].time_taken, g.increment)
         ELSE elapsed_time

compute_black_moves_time_with_increment(g) == black_increment_loop(g, Len(g.moves))

RECURSIVE total_pure_loop(_, _)
total_pure_loop(g, n) ==
    IF n = 0 THEN 0
    ELSE AddU32(total_pure_loop(g, n - 1), g.moves[n].time_taken)

compute_total_moves_pure_time(g) == total_pure_loop(g, Len(g.moves))

\* The wall clock as the queries read it: as_millis() as u32.
current_time == AsU32(now)

compute_current_move_time(g) ==
    LET time_since_first_move == compute_total_moves_pure_time(g) IN
    SubU32(current_time, AddU32(g.start_time, time_since_first_move))

compute_total_elapsed_time(g) ==
    LET black_time == compute_black_moves_pure_time(g)
        white_time == compute_white_moves_pure_time(g)
        current_move_time == compute_current_move_time(g)
    IN  AddU32(AddU32(black_time, white_time), current_move_time)

\* current_move_time is computed before the turn is looked at, so its panic
\* is the query's panic whichever side is to move.
compute_white_used_time(g) ==
    LET white_moves_time == compute_white_moves_time_with_increment(g)
        current_move_time == compute_current_move_time(g)
        turn == compute_current_board(g).turn
    IN  IF current_move_time = Panic THEN Panic
        ELSE IF turn = "White" THEN AddU32(white_moves_time, current_move_time)
        ELSE white_moves_time

\* compute_black_used_time with the in-flight time added on either turn.
compute_black_used_time_on_either_turn(g) ==
    LET black_moves_time == compute_black_moves_time_with_increment(g)
        current_move_time == compute_current_move_time(g)
    IN  AddU32(black_moves_time, current_move_time)

compute_black_used_time(g) ==
    LET black_moves_time == compute_black_moves_time_with_increment(g)
        current_move_time == compute_current_move_time(g)
        turn == compute_current_board(g).turn
    IN  IF current_move_time = Panic THEN Panic
        ELSE IF turn = "White" THEN black_moves_time
        ELSE AddU32(black_moves_time, current_move_time)

\* is_white_time_over with >= for >.
is_white_time_over_at_limit(g) ==
    LET elapsed_time == compute_white_used_time(g) IN
    IF elapsed_time = Panic THEN "panic"
    ELSE IF elapsed_time >= g.time_limit THEN "true" ELSE "false"

\* The bool the call returns, as "true" or "false", or "panic".
is_white_time_over(g) ==
    LET elapsed_time == compute_white_used_time(g) IN
    IF elapsed_time = Panic THEN "panic"
    ELSE IF elapsed_time > g.time_limit THEN "true" ELSE "false"

is_black_time_over(g) ==
    LET elapsed_time == compute_black_used_time(g) IN
    IF elapsed_time = Panic THEN "panic"
    ELSE IF elapsed_time > g.time_limit THEN "true" ELSE "false"

----------------------------------------------------------------------------
(* Persistence: impl Serialize / impl Deserialize for ChessGame *)

\* The order in which a position notation lists the tracked squares.
SquareOrder == << "a7", "b8", "d8", "e7", "a6", "c6", "e4", "g4", "h4",
                  "f3", "h3", "e2", "g1" >>

\* Board::fen(): the placement, square by square, and the side to move.
fen(board) ==
    [placement |-> [i \in 1..Len(SquareOrder) |-> board.pieces[SquareOrder[i]]],
     active |-> IF board.turn = "White" THEN "w" ELSE "b"]

\* A notation Board::from_fen rejects.
MalformedFen == [placement |-> << "P", "?" >>, active |-> "w"]

\* Whether Board::from_fen accepts the notation.
FenParses(notation) ==
    /\ Len(notation.placement) = Len(SquareOrder)
    /\ \A i \in 1..Len(notation.placement) :
           notation.placement[i] \in WhitePieces \cup BlackPieces \cup {Empty}
    /\ notation.active \in {"w", "b"}

\* Board::from_fen on a notation it accepts.
from_fen(notation) ==
    [turn |-> IF notation.active = "w" THEN "White" ELSE "Black",
     pieces |-> [sq \in Squares |->
                    LET i == CHOOSE j \in 1..Len(SquareOrder) : SquareOrder[j] = sq
                    IN  notation.placement[i]]]

\* #[derive(Serialize)] for Move: its two fields, by name.
serialize_move(mov) ==
    << [key |-> "uci_move", value |-> mov.uci_move],
       [key |-> "time_taken", value |-> mov.time_taken] >>

\* #[derive(Deserialize)] for Move.
deserialize_move(entries) ==
    Move(entries[CHOOSE i \in 1..Len(entries) : entries[i].key = "uci_move"].value,
         entries[CHOOSE i \in 1..Len(entries) : entries[i].key = "time_taken"].value)

FIELDS == << "initial_board", "moves", "start_time", "time_limit", "increment" >>

\* serialize with start_time and time_limit written under each other's names.
serialize_crossing_times(g) ==
    << [key |-> "initial_board", value |-> fen(g.initial_board)],
       [key |-> "moves",
        value |-> [i \in 1..Len(g.moves) |-> serialize_move(g.moves[i])]],
       [key |-> "start_time", value |-> g.time_limit],
       [key |-> "time_limit", value |-> g.start_time],
       [key |-> "increment", value |-> g.increment] >>

\* ChessGame::serialize: the five fields, in order.
serialize(g) ==
    << [key |-> "initial_board", value |-> fen(g.initial_board)],
       [key |-> "moves",
        value |-> [i \in 1..Len(g.moves) |-> serialize_move(g.moves[i])]],
       [key |-> "start_time", value |-> g.start_time],
       [key |-> "time_limit", value |-> g.time_limit],
       [key |-> "increment", value |-> g.increment] >>

\* The values the entries give for a key, in order.
ValuesOf(entries, k) ==
    LET at == {i \in 1..Len(entries) : entries[i].key = k}
        RECURSIVE collect(_)
        collect(i) == IF i = 0 THEN << >>
                      ELSE IF i \in at THEN Append(collect(i - 1), entries[i].value)
                      ELSE collect(i - 1)
    IN  collect(Len(entries))

\* The outcome of a visitor: Ok with the session, an error naming a field,
\* or the panic of expect / unwrap.
Loaded(game_) == [result |-> "Ok", field |-> "", game |-> << game_ >>]
LoadError(kind, field_) == [result |-> kind, field |-> field_, game |-> << >>]
LoadPanic == [result |-> "panic", field |-> "", game |-> << >>]

\* The session the visitors construct from the five values.
Construct(board_notation, moves, start_time, time_limit, increment) ==
    IF ~FenParses(board_notation) THEN LoadPanic
    ELSE Loaded([initial_board |-> from_fen(board_notation),
                 moves |-> [i \in 1..Len(moves) |-> deserialize_move(moves[i])],
                 start_time |-> start_time,
                 time_limit |-> time_limit,
                 increment |-> increment])

\* ChessGameVisitor::visit_map.  Every duplicate_field and every
\* missing_field is given the name "initial_board".
visit_map(entries) ==
    LET initial_board_string == ValuesOf(entries, "initial_board")
        moves == ValuesOf(entries, "moves")
        start_time == ValuesOf(entries, "start_time")
        time_limit == ValuesOf(entries, "time_limit")
        increment == ValuesOf(entries, "increment")
    IN  IF \E k \in {FIELDS[i] : i \in 1..Len(FIELDS)} : Len(ValuesOf(entries, k)) > 1
        THEN LoadError("duplicate_field", "initial_board")
        ELSE IF initial_board_string = << >> THEN LoadError("missing_field", "initial_board")
        ELSE IF moves = << >> THEN LoadError("missing_field", "initial_board")
        ELSE IF increment = << >> THEN LoadError("missing_field", "initial_board")
        ELSE IF start_time = << >> THEN LoadError("missing_field", "initial_board")
        ELSE IF time_limit = << >> THEN LoadError("missing_field", "initial_board")
        ELSE Construct(initial_board_string[1], moves[1], start_time[1],
                       time_limit[1], increment[1])

\* ChessGameVisitor::visit_seq: the values by position.
visit_seq(entries) ==
    IF Len(entries) < Len(FIELDS) THEN LoadError("invalid_length", "")
    ELSE Construct(entries[1].value, entries[2].value, entries[3].value,
                   entries[4].value, entries[5].value)

\* deserialize_struct: a self-describing format hands the visitor a map,
\* the others a sequence.
deserialize(w) ==
    IF w.format = "map" THEN visit_map(w.entries) ELSE visit_seq(w.entries)

Formats == {"map", "seq"}

----------------------------------------------------------------------------
(* The session and the calls on it *)

\* ChessGameBuilder::new().with_initial_board(..).with_time_limit(..)
\*     .with_increment(..).build()
build(board, time_limit, increment) ==
    [initial_board |-> board,
     moves |-> << >>,
     start_time |-> AsU32(now),
     time_limit |-> time_limit,
     increment |-> increment]

\* self.moves.insert(0, mov) in place of push(mov).
push_first(g, mov) == [g EXCEPT !.moves = << mov >> \o g.moves]

\* self.moves.push(mov)
push(g, mov) == [g EXCEPT !.moves = Append(g.moves, mov)]

\* pop() that also restarts the session's clock.
pop_and_restamp(g) ==
    [g EXCEPT !.moves = SubSeq(g.moves, 1, Len(g.moves) - 1),
              !.start_time = AsU32(now)]

\* self.moves.remove(0) in place of pop(): the first move goes, not the last.
pop_first(g) == [g EXCEPT !.moves = SubSeq(g.moves, 2, Len(g.moves))]

\* self.moves.pop()
pop(g) == [g EXCEPT !.moves = SubSeq(g.moves, 1, Len(g.moves) - 1)]

\* Nothing has been deserialized.
NotLoaded == [result |-> "none", field |-> "", game |-> << >>]

\* What the call before this one leaves for an immediately following call.
Follows == IF last.result = "Ok" THEN last.op ELSE "none"

Init ==
    /\ now \in InitialEpochs
    /\ overflow_checks \in BOOLEAN
    /\ \E board \in InitialBoards, tl \in TimeLimits, inc \in Increments :
           game = << build(board, tl, inc) >>
    /\ built_at = now
    /\ last = [op |-> "build", result |-> "Ok", follows |-> "none"]
    /\ pre = << >>
    /\ wire = << >>
    /\ loaded = NotLoaded

\* The caller, holding no session, builds one; builds are explored at the
\* initial epochs.
Build ==
    /\ game = << >>
    /\ now \in InitialEpochs
    /\ \E board \in InitialBoards, tl \in TimeLimits, inc \in Increments :
           game' = << build(board, tl, inc) >>
    /\ built_at' = now
    /\ last' = [op |-> "build", result |-> "Ok", follows |-> Follows]
    /\ pre' = game
    /\ UNCHANGED <<now, overflow_checks, wire, loaded>>

\* play_move(self, mov): Ok(self) with the move pushed, or Err with self dropped.
PlayLegal ==
    /\ game # << >>
    /\ Len(game[1].moves) < MaxMoves
    /\ \E uci \in UciMoves, t \in TimeValues :
        /\ is_move_legal(game[1], Move(uci, t))
        /\ game' = << push(game[1], Move(uci, t)) >>
    /\ last' = [op |-> "play_move", result |-> "Ok", follows |-> Follows]
    /\ pre' = game
    /\ UNCHANGED <<now, overflow_checks, built_at, wire, loaded>>

PlayIllegal ==
    /\ game # << >>
    /\ \E uci \in UciMoves, t \in TimeValues :
           ~is_move_legal(game[1], Move(uci, t))
    /\ game' = << >>
    /\ last' = [op |-> "play_move", result |-> "IllegalMove", follows |-> Follows]
    /\ pre' = game
    /\ UNCHANGED <<now, overflow_checks, built_at, wire, loaded>>

\* undo_move(self): Ok(self) with the last move popped, or Err with self dropped.
UndoSome ==
    /\ game # << >>
    /\ game[1].moves # << >>
    /\ game' = << pop(game[1]) >>
    /\ last' = [op |-> "undo_move", result |-> "Ok", follows |-> Follows]
    /\ pre' = game
    /\ UNCHANGED <<now, overflow_checks, built_at, wire, loaded>>

UndoEmpty ==
    /\ game # << >>
    /\ game[1].moves = << >>
    /\ game' = << >>
    /\ last' = [op |-> "undo_move", result |-> "EmptyHistory", follows |-> Follows]
    /\ pre' = game
    /\ UNCHANGED <<now, overflow_checks, built_at, wire, loaded>>

\* The wall clock moves, within the explored window of an initial epoch.
Tick ==
    /\ \E d \in ClockSteps :
        /\ now' = now + d
        /\ \E e \in InitialEpochs :
               /\ now' >= e - ClockUnit
               /\ now' <= e + ClockUnit * MaxClockTicks
    /\ UNCHANGED <<game, overflow_checks, built_at, last, pre, wire, loaded>>

Next == Build \/ PlayLegal \/ PlayIllegal \/ UndoSome \/ UndoEmpty \/ Tick

Spec == Init /\ [][Next]_vars

\* The calls on the session, made before it is persisted.
SerdePlay == wire = << >> /\ PlayLegal

\* The session is serialized (by reference) into one of the formats.
Serialize ==
    /\ game # << >>
    /\ wire = << >>
    /\ \E f \in Formats :
           wire' = << [format |-> f, entries |-> serialize(game[1]), damage |-> "none"] >>
    /\ UNCHANGED <<game, now, overflow_checks, built_at, last, pre, loaded>>

\* The persisted object loses one of its fields.
DropField ==
    /\ wire # << >>
    /\ wire[1].format = "map" /\ wire[1].damage = "none"
    /\ loaded = NotLoaded
    /\ \E i \in 1..Len(FIELDS) :
           wire' = << [wire[1] EXCEPT
                         !.entries = SelectSeq(wire[1].entries, LAMBDA e : e.key # FIELDS[i]),
                         !.damage = FIELDS[i]] >>
    /\ UNCHANGED <<game, now, overflow_checks, built_at, last, pre, loaded>>

\* The persisted object's position notation is replaced by a malformed one.
CorruptBoard ==
    /\ wire # << >>
    /\ wire[1].damage = "none"
    /\ loaded = NotLoaded
    /\ wire' = << [wire[1] EXCEPT
                     !.entries[1] = [key |-> "initial_board", value |-> MalformedFen],
                     !.damage = "malformed"] >>
    /\ UNCHANGED <<game, now, overflow_checks, built_at, last, pre, loaded>>

\* ChessGame::deserialize on the persisted object.
Deserialize ==
    /\ wire # << >>
    /\ loaded = NotLoaded
    /\ loaded' = deserialize(wire[1])
    /\ UNCHANGED <<game, now, overflow_checks, built_at, last, pre, wire>>

SerdeNext == SerdePlay \/ Serialize \/ DropField \/ CorruptBoard \/ Deserialize

\* Sessions are built and played as in Spec, then persisted and loaded.
SerdeSpec == Init /\ [][SerdeNext]_vars

----------------------------------------------------------------------------
(* Reading the state *)

HasGame == game # << >>

\* The session the caller holds (when HasGame).
G == game[1]

Returned(x) == x # Panic

SideToMove(g) == compute_current_board(g).turn

\* The side that makes move i of the history: the side to move before it.
MoverOf(g, i) == replay(g.initial_board, g.moves, i - 1).turn

RECURSIVE SumTimeTaken(_, _, _)
\* The sum of time_taken over the moves i <= n of g that satisfy keep(i), as
\* a natural number.
SumTimeTaken(g, keep(_), n) ==
    IF n = 0 THEN 0
    ELSE SumTimeTaken(g, keep, n - 1) + (IF keep(n) THEN g.moves[n].time_taken ELSE 0)

----------------------------------------------------------------------------
(* Claims *)

\* C1: in every reachable session, compute_total_moves_pure_time() equals
\* compute_white_moves_pure_time() + compute_black_moves_pure_time().
C1_TotalIsSumOfSides ==
    HasGame =>
        compute_total_moves_pure_time(G)
            = compute_white_moves_pure_time(G) + compute_black_moves_pure_time(G)

\* The in-flight time is zero and the history is the given one.
AtRest(g, moves) ==
    /\ g.initial_board = StartPos
    /\ g.increment = 10
    /\ g.moves = moves
    /\ compute_current_move_time(g) = 0

ScenarioA == << Move("e2e4", 1000) >>

ScenarioB == << Move("e2e4", 1000), Move("a7a6", 1000), Move("g1h3", 500) >>

\* C2: for each side S, compute_<S>_used_time() returns S's time-with-increment
\* total plus the in-flight compute_current_move_time() when S is to move, and
\* exactly S's time-with-increment total when it is not; with increment 10 and
\* in-flight time 0, after e2e4/1000 White has used 990 and Black 0, and after
\* e2e4/1000, a7a6/1000, g1h3/500 White has used 1480 and Black 990.
C2_UsedTimeIsIncrementTotalPlusInFlight ==
    HasGame =>
        LET white == compute_white_moves_time_with_increment(G)
            black == compute_black_moves_time_with_increment(G)
            current == compute_current_move_time(G)
            white_used == compute_white_used_time(G)
            black_used == compute_black_used_time(G)
        IN  /\ Returned(white_used) /\ Returned(black_used)
            /\ IF SideToMove(G) = "White"
               THEN Returned(current) /\ white_used = white + current
                                      /\ black_used = black
               ELSE Returned(current) /\ black_used = black + current
                                      /\ white_used = white
            /\ AtRest(G, ScenarioA) => white_used = 990 /\ black_used = 0
            /\ AtRest(G, ScenarioB) => white_used = 1480 /\ black_used = 990

RECURSIVE Recurrence(_, _, _, _)
\* The recurrence of C3 over the moves i <= n of g made by side: add
\* time_taken, then subtract increment if the total is at least increment,
\* else set the total to 0.
Recurrence(g, side, increment, n) ==
    IF n = 0 THEN 0
    ELSE LET before == Recurrence(g, side, increment, n - 1)
             added == before + g.moves[n].time_taken
         IN  IF MoverOf(g, n) # side THEN before
             ELSE IF added >= increment THEN added - increment
             ELSE 0

\* The moves of g made by side.
MovesOf(g, side) == {i \in 1..Len(g.moves) : MoverOf(g, i) = side}

\* What C3 says of one side and its time-with-increment total.
FloorsAtZero(g, side, total) ==
    /\ total = Recurrence(g, side, g.increment, Len(g.moves))
    /\ total >= 0
    /\ \A i \in MovesOf(g, side) :
           (MovesOf(g, side) = {i} /\ g.moves[i].time_taken < g.increment)
               => total = 0

\* C3: each side's compute_<side>_moves_time_with_increment() is the result
\* of the recurrence (add time_taken, then subtract increment or floor to 0,
\* the shortfall not carried); it is never negative, and it is 0 for a side
\* whose single move took less than increment.
C3_IncrementRecurrence ==
    HasGame =>
        /\ FloorsAtZero(G, "White", compute_white_moves_time_with_increment(G))
        /\ FloorsAtZero(G, "Black", compute_black_moves_time_with_increment(G))

\* C3's case: White's 500 is floored under increment 600 and nothing is
\* carried to White's next move of 1000, which leaves 400.
C3_Witness ==
    /\ HasGame
    /\ G.increment = 600
    /\ Cardinality(MovesOf(G, "White")) = 2
    /\ compute_white_moves_pure_time(G) = 1500
    /\ compute_white_moves_time_with_increment(G) = 400

\* C4: a play_move that fails with IllegalMove leaves the caller's session
\* as it was before the call (moves, initial_board, start_time, time_limit,
\* increment).
C4_IllegalMoveLeavesSession ==
    (last.op = "play_move" /\ last.result = "IllegalMove") => game = pre

\* The derived queries that do not read the wall clock.
ClocklessQueries(g) ==
    << compute_current_board(g), SideToMove(g),
       compute_white_moves_pure_time(g), compute_black_moves_pure_time(g),
       compute_white_moves_time_with_increment(g),
       compute_black_moves_time_with_increment(g),
       compute_total_moves_pure_time(g), is_checkmate(g) >>

C6_EmptyUndoLeavesSession ==
    (last.op = "undo_move" /\ last.result = "EmptyHistory") => game = pre

\* The clock reads earlier than start_time plus the pure time of the moves.
ClockBehind(g) ==
    current_time < g.start_time + SumTimeTaken(g, LAMBDA i : TRUE, Len(g.moves))

\* C7: when the clock reads earlier than start_time plus the total pure
\* time, compute_current_move_time() is 0, and the used-time and
\* total-elapsed queries are what they are with an in-flight time of 0.
C7_ClockAnomalyClampsToZero ==
    (HasGame /\ ClockBehind(G)) =>
        /\ compute_current_move_time(G) = 0
        /\ compute_white_used_time(G) = compute_white_moves_time_with_increment(G)
        /\ compute_black_used_time(G) = compute_black_moves_time_with_increment(G)
        /\ compute_total_elapsed_time(G)
               = compute_white_moves_pure_time(G) + compute_black_moves_pure_time(G)

\* C8: compute_white_moves_pure_time() is the sum of time_taken over the
\* moves after which Black is to move, compute_black_moves_pure_time() the
\* sum over the moves after which White is to move.
C8_PureTimeBySide ==
    HasGame =>
        /\ compute_white_moves_pure_time(G)
               = SumTimeTaken(G, LAMBDA i : replay(G.initial_board, G.moves, i).turn = "Black",
                              Len(G.moves))
        /\ compute_black_moves_pure_time(G)
               = SumTimeTaken(G, LAMBDA i : replay(G.initial_board, G.moves, i).turn = "White",
                              Len(G.moves))

C10_TotalElapsedIsTimeSinceStart ==
    (HasGame /\ ~ClockBehind(G)) =>
        compute_total_elapsed_time(G) = current_time - G.start_time

\* The last call was a play_move that returned Ok.
Played == last.op = "play_move" /\ last.result = "Ok"

\* What C13 says of one side: the answer and the used time of one instant.
StrictlyOverLimit(over, used, time_limit) ==
    /\ over = "true" <=> (Returned(used) /\ used > time_limit)
    /\ over = "false" <=> (Returned(used) /\ used <= time_limit)

\* C13: is_<side>_time_over() returns true if and only if the side's used
\* time, read at the same instant, is strictly greater than time_limit; a
\* used time equal to time_limit is not time over.
C13_TimeOverIsStrict ==
    HasGame =>
        /\ StrictlyOverLimit(is_white_time_over(G), compute_white_used_time(G), G.time_limit)
        /\ StrictlyOverLimit(is_black_time_over(G), compute_black_used_time(G), G.time_limit)

\* C13's case: White's used time is exactly the limit, and is not over it.
C13_Witness ==
    /\ HasGame
    /\ compute_white_used_time(G) = G.time_limit
    /\ is_white_time_over(G) = "false"

\* C15: a play_move with a move legal against the current position succeeds
\* and the new history is the old one with that one record appended, every
\* earlier record unchanged.
C15_PlayAppendsOnePly ==
    Played =>
        /\ HasGame /\ pre # << >>
        /\ Len(G.moves) = Len(pre[1].moves) + 1
        /\ SubSeq(G.moves, 1, Len(pre[1].moves)) = pre[1].moves
        /\ Legal(compute_current_board(pre[1]), G.moves[Len(G.moves)].uci_move)

\* C15's case: a play_move on a history that already holds two records.
C15_Witness ==
    /\ Played /\ HasGame /\ pre # << >>
    /\ Len(pre[1].moves) = 2
    /\ G.moves = Append(pre[1].moves, G.moves[3])

\* C16: in every reachable session each moves[i] is legal against the
\* position obtained by replaying the moves before it from initial_board.
C16_HistoryIsLegal ==
    HasGame =>
        \A i \in 1..Len(G.moves) :
            Legal(replay(G.initial_board, G.moves, i - 1), G.moves[i].uci_move)

\* C16's case: a history of several moves left by a play_move that followed
\* an undo_move.
C16_Witness ==
    /\ Played /\ last.follows = "undo_move"
    /\ HasGame
    /\ Len(G.moves) >= 2

\* C17: at every instant now at or after the build plus the total pure
\* time, compute_current_move_time() returns now - (start + total pure
\* time), start being the epoch instant of the build, whatever the epoch.
C17_InFlightTimeAtEveryEpoch ==
    LET total == SumTimeTaken(G, LAMBDA i : TRUE, Len(G.moves)) IN
    (HasGame /\ now >= built_at + total) =>
        compute_current_move_time(G) = now - (built_at + total)

\* The four fields of a session that are not the history.
Settings(g) == << g.initial_board, g.start_time, g.time_limit, g.increment >>

\* C18: across play_move and undo_move calls a session's initial_board,
\* start_time, time_limit and increment keep the values of the build.
C18_SettingsAreKept ==
    HasGame =>
        /\ G.start_time = AsU32(built_at)
        /\ (last.op \in {"play_move", "undo_move"}) =>
               (pre # << >> /\ Settings(G) = Settings(pre[1]))

\* C18's case: an undo_move after a play_move, later than the build.
C18_Witness ==
    /\ HasGame
    /\ last.op = "undo_move" /\ last.follows = "play_move"
    /\ now > built_at
    /\ Settings(G) = Settings(pre[1])

\* C19: each side's time-with-increment total is at most its pure time.
C19_IncrementTotalAtMostPureTime ==
    HasGame =>
        /\ compute_white_moves_time_with_increment(G) <= compute_white_moves_pure_time(G)
        /\ compute_black_moves_time_with_increment(G) <= compute_black_moves_pure_time(G)

\* C20: a successful play_move leaves the pure time and the
\* time-with-increment total of the side that did not move as they were.
C20_PlayLeavesOtherSideTimes ==
    Played =>
        IF SideToMove(pre[1]) = "White"
        THEN /\ compute_black_moves_pure_time(G) = compute_black_moves_pure_time(pre[1])
             /\ compute_black_moves_time_with_increment(G)
                    = compute_black_moves_time_with_increment(pre[1])
        ELSE /\ compute_white_moves_pure_time(G) = compute_white_moves_pure_time(pre[1])
             /\ compute_white_moves_time_with_increment(G)
                    = compute_white_moves_time_with_increment(pre[1])

\* Something has been persisted and deserialized.
HasLoaded == wire # << >> /\ loaded.result # "none"

\* The fields the persisted object does not hold.
Absent(entries) ==
    {FIELDS[i] : i \in 1..Len(FIELDS)} \ {entries[i].key : i \in 1..Len(entries)}

\* C11: deserializing a persisted object from which exactly one of the five
\* fields is absent fails with a missing-field error naming that field.
C11_MissingFieldIsNamed ==
    (HasLoaded /\ Cardinality(Absent(wire[1].entries)) = 1) =>
        /\ loaded.result = "missing_field"
        /\ loaded.field \in Absent(wire[1].entries)

\* C12: serializing a session and deserializing the result yields a session
\* with the same moves (notation and time_taken, in order), start_time,
\* time_limit, increment and derived current position.
C12_RoundTrip ==
    (HasLoaded /\ HasGame /\ wire[1].damage = "none") =>
        /\ loaded.result = "Ok"
        /\ LET h == loaded.game[1] IN
            /\ h.moves = G.moves
            /\ h.start_time = G.start_time
            /\ h.time_limit = G.time_limit
            /\ h.increment = G.increment
            /\ compute_current_board(h) = compute_current_board(G)

\* C12's case: a session with a full history, built on the custom board,
\* has gone through the map format and back.
C12_Witness ==
    /\ HasLoaded /\ HasGame
    /\ wire[1].damage = "none" /\ wire[1].format = "map"
    /\ loaded.result = "Ok"
    /\ G.initial_board = MateInOnePos
    /\ Len(G.moves) = 3
    /\ loaded.game[1].moves = G.moves

\* C14: deserializing a persisted session whose position notation is
\* malformed produces no session and returns a PositionParseError failure,
\* not a panic.
C14_MalformedBoardIsAnError ==
    (HasLoaded /\ wire[1].damage = "malformed") =>
        /\ loaded.game = << >>
        /\ loaded.result = "PositionParseError"

====
